---- MODULE Spec2Model ----
(***************************************************************************)
(* Client-side session store (AuthManager), token refresh and the          *)
(* authenticated request wrapper (authFetch) of the secure MFA login       *)
(* front end, together with the pages that use them: Login, MFAVerify,     *)
(* Dashboard, MFASetup and MFADisable.  A page's useState values live as   *)
(* long as the page is mounted; an exchange a handler awaits goes on after *)
(* its page was left, and its continuation then runs without the page.    *)
(*                                                                         *)
(* JavaScript runs every continuation to completion: the code between two  *)
(* awaits of a network exchange is one action.  A promise that settles     *)
(* without a network exchange (refreshTokens returning false at once)      *)
(* resumes its awaiter in the same microtask drain, so it is part of the   *)
(* same action.                                                            *)
(***************************************************************************)
EXTENDS Integers, Sequences, FiniteSets

\* ------------------------------------------------------------------ bounds
NumCallers == 2          \* authFetch calls that may be in flight together
MaxTok == 3              \* token pairs the identity service issues
MaxSends == 3            \* cap on the sends counted for one authFetch call
MaxVerify == 2           \* cap on the handleVerify exchanges in flight

Callers == 1..NumCallers

\* ------------------------------------------------------- JavaScript values
\* A value is <<kind, n>>.
NULL == <<"null", 0>>                   \* null, and getItem of a missing key
UNDEFINED == <<"undefined", 0>>         \* a property the server omitted
UNDEFINED_STR == <<"undefinedStr", 0>>  \* the nine-character text "undefined"
NULL_STR == <<"nullStr", 0>>            \* the text "null"
EMPTY_STR == <<"emptyStr", 0>>          \* the empty text
Str(n) == <<"str", n>>                  \* a non-empty opaque text (a token)
Num(n) == <<"num", n>>                  \* a number
NumStr(n) == <<"numStr", n>>            \* the decimal text of a number
Json(n) == <<"json", n>>                \* stored profile text; 0 does not parse
Obj(n) == <<"obj", n>>                  \* a parsed User object

BEARER == Str(100)                      \* the token type "bearer"

\* JavaScript truthiness, as used by `!token`, `if (tokens.tokenType)`, ...
Truthy(v) ==
  \/ v[1] \in {"str", "undefinedStr", "nullStr", "numStr", "json", "obj"}
  \/ v[1] = "num" /\ v[2] # 0

\* What localStorage.setItem / sessionStorage.setItem store for a value:
\* the value converted to text.
toText(v) ==
  CASE v[1] = "undefined" -> UNDEFINED_STR
    [] v[1] = "null" -> NULL_STR
    [] v[1] = "num" -> NumStr(v[2])
    [] OTHER -> v

ParseOk(text) == text[1] = "json" /\ text[2] # 0
JsonParse(text) == Obj(text[2])

\* ------------------------------------------------------------------- state
VARIABLES
  accessToken,     \* AuthManager.accessToken
  refreshToken,    \* AuthManager.refreshToken
  user,            \* AuthManager.user
  localStorage,    \* durable key/value entries
  sessionStorage,  \* tempLoginEmail / tempLoginPassword
  calls,           \* one record per authFetch call
  page,            \* the mounted page
  loginPc,         \* Login.handleSubmit: "idle" or "awaiting"
  otp,             \* MFAVerify: the six code boxes
  verifyLoading,   \* MFAVerify: loading
  verifyError,     \* MFAVerify: an error message is shown
  verifyPc,        \* MFAVerify.handleVerify of the mounted instance
  verifyStale,     \* handleVerify exchanges of unmounted instances, by mode
  timeLeft,        \* MFAVerify: timeLeft, the seconds the countdown shows
  logoutPc,        \* Dashboard.handleLogout: "idle" or "awaiting"
  dashUser,        \* Dashboard: user, read from the store at mount
  setupLoading,    \* MFASetup: loading
  setupPc,         \* MFASetup mount effect: "idle" or "awaiting"
  totpCode,        \* MFASetup: the code field
  confirming,      \* MFASetup: confirming
  setupError,      \* MFASetup: an error message is shown
  confirmPc,       \* MFASetup.handleConfirm: the exchange in flight
  disablePassword, \* MFADisable: password
  showConfirmDialog, \* MFADisable: showConfirmDialog
  disableLoading,  \* MFADisable: loading
  disableError,    \* MFADisable: an error message is shown
  disablePc,       \* MFADisable.confirmDisable: its authFetch call
  nextTok,         \* identity service: number of the next pair it issues
  lastOp,          \* the last Session Store operation and its argument
  lastEvent        \* the handler outcome the last step was, or "other"

\* The state of the MFAVerify page and of its handleVerify exchanges.
mfaVerifyVars ==
  <<otp, verifyLoading, verifyError, verifyPc, verifyStale, timeLeft>>

\* The state of the MFASetup page and of its exchanges.
mfaSetupVars ==
  <<setupLoading, setupPc, totpCode, confirming, setupError, confirmPc>>

\* The state of the MFADisable page and of its exchange.
mfaDisableVars ==
  <<disablePassword, showConfirmDialog, disableLoading, disableError,
    disablePc>>

\* The state of the pages other than Login and MFAVerify.
settingsVars == <<dashUser, mfaSetupVars, mfaDisableVars>>

vars == <<accessToken, refreshToken, user, localStorage, sessionStorage,
          calls, page, loginPc, mfaVerifyVars, logoutPc, settingsVars,
          nextTok, lastOp, lastEvent>>

LsKeys == {"accessToken", "refreshToken", "user", "tokenType", "expiresIn"}

\* The AuthManager fields and the durable entries, as one value.
Cur ==
  [accessToken |-> accessToken, refreshToken |-> refreshToken,
   user |-> user, localStorage |-> localStorage]

Install(s) ==
  /\ accessToken' = s.accessToken
  /\ refreshToken' = s.refreshToken
  /\ user' = s.user
  /\ localStorage' = s.localStorage

StoreUnchanged == UNCHANGED <<accessToken, refreshToken, user, localStorage>>

\* ------------------------------------------------------------ AuthManager
\* Variant: the entries are overwritten with null instead of removed.
clearAuth_setsNull(s) ==
  [accessToken |-> NULL, refreshToken |-> NULL, user |-> NULL,
   localStorage |-> [s.localStorage EXCEPT !["accessToken"] = toText(NULL),
                                           !["refreshToken"] = toText(NULL),
                                           !["user"] = toText(NULL)]]

clearAuth(s) ==
  [accessToken |-> NULL, refreshToken |-> NULL, user |-> NULL,
   localStorage |-> [s.localStorage EXCEPT !["accessToken"] = NULL,
                                           !["refreshToken"] = NULL,
                                           !["user"] = NULL]]

\* Variant: a renewal replaces the access token only.
setTokens_accessOnly(s, tokens) ==
  [s EXCEPT
     !.accessToken = tokens.accessToken,
     !.localStorage =
        [s.localStorage EXCEPT
           !["accessToken"] = toText(tokens.accessToken)]]

setTokens(s, tokens) ==
  [s EXCEPT
     !.accessToken = tokens.accessToken,
     !.refreshToken = tokens.refreshToken,
     !.localStorage =
        [s.localStorage EXCEPT
           !["accessToken"] = toText(tokens.accessToken),
           !["refreshToken"] = toText(tokens.refreshToken),
           !["tokenType"] = IF Truthy(tokens.tokenType)
                            THEN toText(tokens.tokenType) ELSE @,
           !["expiresIn"] = IF Truthy(tokens.expiresIn)
                            THEN toText(tokens.expiresIn) ELSE @]]

\* A profile entry that JSON.parse rejects (lines 35-39).
Malformed(ls) == Truthy(ls["user"]) /\ ~ParseOk(ls["user"])

\* Variant: the catch block only logs and keeps what was read.
loadFromStorage_keeps(ls) ==
  LET loaded == [accessToken |-> ls["accessToken"],
                 refreshToken |-> ls["refreshToken"],
                 user |-> NULL, localStorage |-> ls]
  IN IF Truthy(ls["user"]) /\ ParseOk(ls["user"])
     THEN [loaded EXCEPT !.user = JsonParse(ls["user"])]
     ELSE loaded

\* The constructor: fields start null, then loadFromStorage().
loadFromStorage(ls) ==
  LET loaded == [accessToken |-> ls["accessToken"],
                 refreshToken |-> ls["refreshToken"],
                 user |-> NULL, localStorage |-> ls]
  IN IF Truthy(ls["user"])
     THEN IF ParseOk(ls["user"])
          THEN [loaded EXCEPT !.user = JsonParse(ls["user"])]
          ELSE clearAuth(loaded)
     ELSE loaded

getAccessToken(s) == s.accessToken
getRefreshToken(s) == s.refreshToken
getUser(s) == s.user
isAuthenticated(s) == Truthy(s.accessToken)

\* No session and no profile: every field is null.
Absent(s) == s.accessToken = NULL /\ s.refreshToken = NULL /\ s.user = NULL

\* Variant: a settled refresh is remembered and its outcome handed out
\* again instead of sending.
RefreshSendsExchange_settledOnce(s) ==
  Truthy(s.refreshToken) /\ \A d \in Callers : calls[d].refreshRet = "none"

\* refreshTokens, line 85: no exchange is sent without a refresh token.
RefreshSendsExchange(s) == Truthy(s.refreshToken)

\* refreshTokens, lines 98-110: the store after the exchange has settled.
\* A response that is ok but carries no `tokens` makes setTokens throw
\* before it assigns anything; the catch block clears the store.
RefreshOutcomes == {"ok", "okNoRefreshToken", "okNoTokens", "rejected", "neterr"}
RefreshOk(outcome) == outcome \in {"ok", "okNoRefreshToken"}
\* Variant: the catch block reports failure without clearing.
refreshSettle_catchKeeps(s, outcome, tokens) ==
  IF RefreshOk(outcome) THEN setTokens(s, tokens)
  ELSE IF outcome = "rejected" THEN clearAuth(s) ELSE s

refreshSettle(s, outcome, tokens) ==
  IF RefreshOk(outcome) THEN setTokens(s, tokens) ELSE clearAuth(s)

\* ------------------------------------------------------- identity service
\* Token type and expiry hint of a granted session; the service may omit
\* them, and an expiry of zero seconds is a number like any other.
Metas == {<<BEARER, Num(1)>>, <<BEARER, Num(0)>>, <<UNDEFINED, UNDEFINED>>}

IssueTokens(n, withRefresh, meta) ==
  [accessToken |-> Str(n),
   refreshToken |-> IF withRefresh THEN Str(n) ELSE UNDEFINED,
   tokenType |-> meta[1], expiresIn |-> meta[2]]

NoTokens ==
  [accessToken |-> NULL, refreshToken |-> NULL,
   tokenType |-> NULL, expiresIn |-> NULL]

Statuses == {"200", "401", "403"}
Responses == Statuses \cup {"neterr"}

\* ---------------------------------------------------------------- authFetch
\* pc: where the call is; token: the local `token`; authorization: the
\* bearer in `headers` (the request in flight carries it); rfBody: the refresh
\* token in the body of the refresh exchange in flight; response: the local
\* `response`; granted: the access token the refresh exchange answered with;
\* result: what the caller got.  sends, refreshCalls, exchanges, firstResp
\* and refreshRet record what the call has done.  The locals are gone once
\* the call has returned.
IdleCall ==
  [pc |-> "idle", sends |-> 0, refreshCalls |-> 0, exchanges |-> 0,
   token |-> NULL, authorization |-> NULL, granted |-> NULL,
   firstResp |-> "none", response |-> "none", refreshRet |-> "none",
   rfBody |-> NULL, result |-> "none"]

\* Variant: a fetch that rejects is handed back like a response.
Outcome_asResponse(r) == r

\* line 142 `return response`; a fetch that rejects makes authFetch throw.
Outcome(r) == IF r = "neterr" THEN "NetworkFailure" ELSE r

Returned(call, outcome) ==
  [call EXCEPT !.pc = "done", !.result = outcome, !.token = NULL,
               !.authorization = NULL, !.granted = NULL, !.rfBody = NULL]

\* Variant: the request is sent whatever the token is.
SendsRequest_always(token) == TRUE

\* line 120: `if (!token) throw`
SendsRequest(token) == Truthy(token)

\* Variant: every status but 200 starts a refresh.
IsAuthFailure_anyError(status) == status # "200"

\* Variant: the status test is a loop condition.
ChecksAuthFailure_loop(attempt) == TRUE

\* line 133: the status test, made once, after the first send only.
IsAuthFailure(status) == status = "401"
ChecksAuthFailure(attempt) == attempt = 1

\* Variant: the resend reuses the local `token`.
RetryToken_old(oldToken, s) == oldToken

\* lines 136-137: the bearer of the resend is read from the store again.
RetryToken(oldToken, s) == getAccessToken(s)

SetCall(c, r) == calls' = [calls EXCEPT ![c] = r]

\* authFetch up to its first await or its throw (lines 118-130).
Started(call, s) ==
  LET token == getAccessToken(s)
  IN IF SendsRequest(token)
     THEN [call EXCEPT !.pc = "sent", !.sends = 1, !.token = token,
                       !.authorization = token]
     ELSE Returned(call, "Unauthenticated")

AuthFetchStart(c) ==
  /\ calls[c].pc = "idle"
  /\ SetCall(c, Started(calls[c], Cur))
  /\ StoreUnchanged
  /\ UNCHANGED <<sessionStorage, page, loginPc, mfaVerifyVars, settingsVars,
                 logoutPc, nextTok, lastOp>>
  /\ lastEvent' = "other"

\* The response to the wrapped request arrives (lines 130-142, up to the
\* next await).
AuthFetchResponse(c) ==
  /\ calls[c].pc = "sent"
  /\ \E r \in Responses :
       LET attempt == calls[c].sends
           seen == [calls[c] EXCEPT
                      !.response = r,
                      !.firstResp = IF attempt = 1 THEN r ELSE @]
       IN IF r = "neterr"
          THEN SetCall(c, Returned(seen, Outcome(r)))
          ELSE IF ChecksAuthFailure(attempt) /\ IsAuthFailure(r)
          THEN IF RefreshSendsExchange(Cur)
               THEN SetCall(c, [seen EXCEPT
                                  !.pc = "refreshing",
                                  !.refreshCalls = @ + 1,
                                  !.exchanges = @ + 1,
                                  !.rfBody = getRefreshToken(Cur)])
               ELSE SetCall(c, Returned([seen EXCEPT
                                            !.refreshCalls = @ + 1,
                                            !.refreshRet = "false"],
                                         Outcome(r)))
          ELSE SetCall(c, Returned(seen, Outcome(r)))
  /\ StoreUnchanged
  /\ UNCHANGED <<sessionStorage, page, loginPc, mfaVerifyVars, settingsVars,
                 logoutPc, nextTok, lastOp>>
  /\ lastEvent' = "other"

\* The refresh exchange settles (auth.ts 98-110), refreshTokens returns and
\* authFetch continues (lines 135-142).
RefreshSettled(c, outcome, meta) ==
  /\ calls[c].pc = "refreshing"
  /\ RefreshOk(outcome) => nextTok <= MaxTok
  /\ ~RefreshOk(outcome) => meta = <<UNDEFINED, UNDEFINED>>
  /\ LET tokens == IF RefreshOk(outcome)
                   THEN IssueTokens(nextTok, outcome = "ok", meta)
                   ELSE NoTokens
         s2 == refreshSettle(Cur, outcome, tokens)
     IN /\ Install(s2)
        /\ lastOp' = IF RefreshOk(outcome)
                     THEN [op |-> "set", arg |-> tokens]
                     ELSE [op |-> "clear", arg |-> NoTokens]
        /\ nextTok' = IF RefreshOk(outcome) THEN nextTok + 1 ELSE nextTok
        /\ IF RefreshOk(outcome)
           THEN /\ calls[c].sends < MaxSends
                /\ SetCall(c, [calls[c] EXCEPT
                      !.pc = "sent",
                      !.refreshRet = "true",
                      !.sends = @ + 1,
                      !.rfBody = NULL,
                      !.granted = tokens.accessToken,
                      !.authorization = RetryToken(calls[c].token, s2)])
           ELSE SetCall(c, Returned([calls[c] EXCEPT !.refreshRet = "false"],
                                    Outcome(calls[c].response)))
  /\ UNCHANGED <<sessionStorage, page, loginPc, mfaVerifyVars, settingsVars,
                 logoutPc>>
  /\ lastEvent' = "other"

RefreshResponse(c) ==
  \E outcome \in RefreshOutcomes, meta \in Metas :
    RefreshSettled(c, outcome, meta)

\* The caller has its outcome; the slot is free for another call.
AuthFetchReturn(c) ==
  /\ calls[c].pc = "done"
  /\ disablePc.slot # c
  /\ SetCall(c, IdleCall)
  /\ StoreUnchanged
  /\ UNCHANGED <<sessionStorage, page, loginPc, mfaVerifyVars, settingsVars,
                 logoutPc, nextTok, lastOp>>
  /\ lastEvent' = "other"

\* ------------------------------------------------------------------- pages
\* user?.mfaEnabled
mfaEnabled(u) == u = Obj(2)

\* The page shown after navigating to `target`: MFADisable sends a client
\* whose cached profile does not say mfaEnabled to the dashboard; the mount
\* effects of MFAVerify, Dashboard and MFASetup send a client without
\* access token to the login page; Dashboard renders only a spinner without
\* a cached profile.
Route(target, s) ==
  LET to == IF target = "mfaDisable" /\ ~mfaEnabled(getUser(s))
            THEN "dashboard" ELSE target
  IN IF to \in {"mfaVerify", "dashboard", "mfaSetup"} /\ ~isAuthenticated(s)
     THEN "login"
     ELSE IF to = "dashboard" /\ ~Truthy(getUser(s))
     THEN "dashboardSpinner"
     ELSE to

EMAIL == Str(200)
PASSWORD == Str(201)
NoCredentials == [tempLoginEmail |-> NULL, tempLoginPassword |-> NULL]

\* Login.handleSubmit up to the await of the login exchange.
LoginSubmit ==
  /\ page = "login"
  /\ loginPc = "idle"
  /\ loginPc' = "awaiting"
  /\ StoreUnchanged
  /\ UNCHANGED <<sessionStorage, calls, page, mfaVerifyVars, settingsVars,
                 logoutPc, nextTok, lastOp>>
  /\ lastEvent' = "other"

\* Answers of the login exchange, as handleSubmit tells them apart.
LoginAnswers == {"requiresMfa", "requiresMfaAndTokens", "tokens",
                 "tokensNoRefreshToken", "message", "error"}
GrantsTokens(answer) == answer \in {"tokens", "tokensNoRefreshToken"}
\* The service rejects the login: apiCall throws an ApiError for a non-ok
\* status ("error", which handleSubmit does not tell from a network
\* failure), or the answer is ok without access_token ("message").
Rejects(answer) == answer \in {"message", "error"}
RequiresMfa(answer) == answer \in {"requiresMfa", "requiresMfaAndTokens"}
IssuesTokens(answer) == GrantsTokens(answer) \/ answer = "requiresMfaAndTokens"

\* ------------------------------------------------------- MFAVerify: state
OtpLength == 6
ChallengeWindow == 30                   \* useState(30) of timeLeft
DIGIT == "1"                            \* a character \d matches
LETTER == "a"                           \* a character \D matches
IsDigit(ch) == ch = DIGIT
Text(n, ch) == [i \in 1..n |-> ch]      \* a text of n equal characters
SixDigits == Text(OtpLength, DIGIT)

\* /^\d*$/.test(value)
AllDigits(text) == \A i \in 1..Len(text) : IsDigit(text[i])
\* text.replace(/\D/g, '')
StripNonDigits(text) == SelectSeq(text, IsDigit)

\* otp.join("")
RECURSIVE Join(_)
Join(cells) == IF cells = <<>> THEN <<>> ELSE Head(cells) \o Join(Tail(cells))

EmptyOtp == [i \in 1..OtpLength |-> <<>>]
IdleVerify ==
  [mode |-> "idle", code |-> <<>>, email |-> NULL, password |-> NULL, n |-> 0]
NoStale == [login |-> 0, direct |-> 0]
InFlight == verifyPc.n + verifyStale.login + verifyStale.direct

\* The exchanges that go on without their page once the mounted MFAVerify
\* instance is unmounted.
Orphaned(pc, stale) ==
  IF pc.n = 0 THEN stale ELSE [stale EXCEPT ![pc.mode] = @ + pc.n]

\* useState initial values of a newly mounted MFAVerify (lines 49-52).
Fresh ==
  /\ otp' = EmptyOtp
  /\ verifyLoading' = FALSE
  /\ verifyError' = FALSE
  /\ verifyPc' = IdleVerify
  /\ timeLeft' = ChallengeWindow

\* ------------------------------------------------- MFASetup: state
IdleConfirm == [state |-> "idle", code |-> <<>>, live |-> FALSE]

\* The handleConfirm exchange goes on without its page.
Unlive(pc) == [pc EXCEPT !.live = FALSE]

\* ------------------------------------------------------ MFADisable: state
IdleDisable == [slot |-> 0, password |-> EMPTY_STR, live |-> FALSE]

\* --------------------------------------------------------------- navigate
\* The component that renders a page.
Component(p) == IF p = "dashboardSpinner" THEN "dashboard" ELSE p

\* navigate(target): the page shown afterwards.  Navigating to the route
\* that is shown already mounts nothing and runs no mount effect.
Landing(target, s) ==
  IF Component(page) = target THEN page ELSE Route(target, s)

\* MFAVerify after a navigation: the mounted instance if it is kept, the
\* useState initial values otherwise.
VerifyShown(kept, newPage) ==
  IF kept /\ newPage = "mfaVerify"
  THEN UNCHANGED mfaVerifyVars
  ELSE Fresh /\ verifyStale' = Orphaned(verifyPc, verifyStale)

\* Dashboard, MFASetup and MFADisable after a navigation.  Dashboard reads
\* the cached profile once, at mount (Dashboard.tsx line 13); a newly
\* mounted MFASetup is loading and has sent /mfa/setup (MFASetup.tsx lines
\* 11-38); MFADisable starts from its useState values (part_002 12-15).
SettingsShown(kept, newPage, s, pc, dpc) ==
  /\ dashUser' = IF Component(newPage) # "dashboard" THEN NULL
                 ELSE IF kept THEN dashUser ELSE getUser(s)
  /\ IF kept /\ newPage = "mfaSetup"
     THEN UNCHANGED mfaSetupVars
     ELSE /\ setupLoading' = (newPage = "mfaSetup")
          /\ setupPc' = IF newPage = "mfaSetup" THEN "awaiting" ELSE "idle"
          /\ totpCode' = <<>>
          /\ confirming' = FALSE
          /\ setupError' = FALSE
          /\ confirmPc' = Unlive(pc)
  /\ IF kept /\ newPage = "mfaDisable"
     THEN UNCHANGED mfaDisableVars
     ELSE /\ disablePassword' = EMPTY_STR
          /\ showConfirmDialog' = FALSE
          /\ disableLoading' = FALSE
          /\ disableError' = FALSE
          /\ disablePc' = Unlive(dpc)

\* navigate(target) in a step that does not otherwise write the state of
\* the pages; s is the store the step leaves.
Navigate(target, s) ==
  LET kept == Component(page) = target
      newPage == Landing(target, s)
  IN /\ page' = newPage
     /\ VerifyShown(kept, newPage)
     /\ SettingsShown(kept, newPage, s, confirmPc, disablePc)

\* ------------------------------------------------------------------ Login
\* Variant: a rejected login ends the session that was there.
RejectedStore_cleared(s) == clearAuth(s)

\* Login.tsx 87-110: the branches for an answer without access_token and
\* for a thrown error set the page's error message and call nothing of the
\* AuthManager.
RejectedStore(s) == s

\* Login.handleSubmit after the await (lines 57-113).  An answer with
\* requires_mfa is handled before its tokens, if any, are looked at.
LoginAnswered(answer) ==
  /\ loginPc = "awaiting"
  /\ loginPc' = "idle"
  /\ lastEvent' = IF Rejects(answer) THEN "loginRejected" ELSE "other"
  /\ \E meta \in Metas :
       /\ IssuesTokens(answer) => nextTok <= MaxTok
       /\ ~GrantsTokens(answer) => meta = <<UNDEFINED, UNDEFINED>>
       /\ IF RequiresMfa(answer)
          THEN /\ sessionStorage' = [tempLoginEmail |-> toText(EMAIL),
                                     tempLoginPassword |-> toText(PASSWORD)]
               /\ Navigate("mfaVerify", Cur)
               /\ StoreUnchanged
               /\ nextTok' = IF IssuesTokens(answer) THEN nextTok + 1
                             ELSE nextTok
               /\ UNCHANGED lastOp
          ELSE IF GrantsTokens(answer)
          THEN LET tokens == IssueTokens(nextTok, answer = "tokens", meta)
                   s2 == setTokens(Cur, tokens)
               IN /\ Install(s2)
                  /\ lastOp' = [op |-> "set", arg |-> tokens]
                  /\ nextTok' = nextTok + 1
                  /\ Navigate("dashboard", s2)
                  /\ UNCHANGED sessionStorage
          ELSE /\ Install(RejectedStore(Cur))
               /\ UNCHANGED <<sessionStorage, page, mfaVerifyVars,
                              settingsVars, nextTok, lastOp>>
  /\ UNCHANGED <<calls, logoutPc>>

LoginResponse == \E answer \in LoginAnswers : LoginAnswered(answer)

\* -------------------------------------------------------------- MFAVerify
\* The code boxes are disabled while loading (line 252), the Verify button
\* while loading or while a box is empty (lines 276-283).
InputEnabled_always(loading) == TRUE
InputEnabled(loading) == ~loading
ButtonEnabled(loading, cells) ==
  ~loading /\ \A i \in 1..Len(cells) : cells[i] # <<>>

\* Variant: the code is always sent alone, to /mfa/verify.
VerifyMode_codeOnly == "direct"

\* The exchange handleVerify awaits (lines 135-145, 164-165).
VerifyMode ==
  IF Truthy(sessionStorage.tempLoginEmail)
     /\ Truthy(sessionStorage.tempLoginPassword)
  THEN "login" ELSE "direct"

\* What the exchange carries besides the code: the replayed login the
\* stored credentials (lines 141-145), /mfa/verify none (line 165).
Carried(mode, item) == IF mode = "login" THEN sessionStorage[item] ELSE NULL

\* MFAVerify.handleVerify(code) up to its await or early return (lines
\* 122-145): what it leaves in loading, error and the exchanges in flight.
\* It does not look at loading: called again, it sends again.
handleVerify(code, cells) ==
  LET verificationCode == IF code # <<>> THEN code ELSE Join(cells)
  IN IF Len(verificationCode) # OtpLength
     THEN [loading |-> verifyLoading, error |-> TRUE, pc |-> verifyPc]
     ELSE [loading |-> TRUE, error |-> FALSE,
           pc |-> [mode |-> VerifyMode, code |-> verificationCode,
                   email |-> Carried(VerifyMode, "tempLoginEmail"),
                   password |-> Carried(VerifyMode, "tempLoginPassword"),
                   n |-> verifyPc.n + 1]]

\* What the user types into one box, and what is pasted.
TypedValues == {<<>>, <<DIGIT>>, <<LETTER>>, <<DIGIT, DIGIT>>}
PastedTexts ==
  {SixDigits, Text(OtpLength - 1, DIGIT), Text(OtpLength + 1, DIGIT),
   <<LETTER>> \o Text(OtpLength - 1, DIGIT), <<LETTER>> \o SixDigits}

\* handleChange accepts the empty text or one digit (lines 82-83).
AcceptsTyped_any(value) == TRUE
AcceptsTyped(value) == Len(value) <= 1 /\ AllDigits(value)

\* MFAVerify.handleChange (lines 81-103), with the handleVerify it calls
\* when the last box is filled.
HandleChange(index, value) ==
  /\ page = "mfaVerify"
  /\ InputEnabled(verifyLoading)
  /\ AcceptsTyped(value)
  /\ LET newOtp == [otp EXCEPT ![index] = value]
         submits == value # <<>> /\ \A i \in 1..OtpLength : newOtp[i] # <<>>
         v == handleVerify(Join(newOtp), newOtp)
     IN /\ submits => InFlight < MaxVerify
        /\ otp' = newOtp
        /\ verifyError' = IF verifyError THEN FALSE
                          ELSE IF submits THEN v.error ELSE FALSE
        /\ verifyLoading' = IF submits THEN v.loading ELSE verifyLoading
        /\ verifyPc' = IF submits THEN v.pc ELSE verifyPc
  /\ StoreUnchanged
  /\ UNCHANGED <<sessionStorage, calls, page, loginPc, verifyStale, timeLeft,
                 logoutPc, settingsVars, nextTok, lastOp>>
  /\ lastEvent' = "other"

\* MFAVerify.handlePaste (lines 111-120).
HandlePaste(text) ==
  /\ page = "mfaVerify"
  /\ InputEnabled(verifyLoading)
  /\ LET pastedData == StripNonDigits(text)
         v == handleVerify(pastedData, otp)
     IN IF Len(pastedData) = OtpLength
        THEN /\ InFlight < MaxVerify
             /\ otp' = [i \in 1..OtpLength |-> <<pastedData[i]>>]
             /\ verifyLoading' = v.loading
             /\ verifyError' = v.error
             /\ verifyPc' = v.pc
        ELSE UNCHANGED <<otp, verifyLoading, verifyError, verifyPc>>
  /\ StoreUnchanged
  /\ UNCHANGED <<sessionStorage, calls, page, loginPc, verifyStale, timeLeft,
                 logoutPc, settingsVars, nextTok, lastOp>>
  /\ lastEvent' = "other"

\* The Verify button: handleVerify() without an argument (line 277).  The
\* button is enabled in no reachable state (ButtonNeverEnabled below): the
\* box that completes the code submits it, and the boxes are emptied before
\* loading ends.
VerifySubmit ==
  /\ page = "mfaVerify"
  /\ ButtonEnabled(verifyLoading, otp)
  /\ InFlight < MaxVerify
  /\ LET v == handleVerify(<<>>, otp)
     IN /\ verifyLoading' = v.loading
        /\ verifyError' = v.error
        /\ verifyPc' = v.pc
  /\ StoreUnchanged
  /\ UNCHANGED <<sessionStorage, calls, page, loginPc, otp, verifyStale,
                 timeLeft, logoutPc, settingsVars, nextTok, lastOp>>
  /\ lastEvent' = "other"

\* Answers of the exchange handleVerify awaits: the replayed login grants
\* tokens, answers without access_token, or fails; /mfa/verify acknowledges
\* or fails.
VerifyAnswers == {"tokens", "tokensNoRefreshToken", "noToken", "ack", "error"}

\* What a step of handleVerify after the await is recorded as.
VerifyEvent(mode, live, accepted) ==
  IF live /\ accepted /\ mode = "login" THEN "codeAccepted" ELSE "other"

\* Variant: the stored credentials are kept.
CredentialsRemoved_kept(ss) == ss

\* lines 148-149: sessionStorage.removeItem of both credentials.
CredentialsRemoved(ss) == NoCredentials

\* MFAVerify.handleVerify after the await (lines 146-188), for the exchange
\* of the mounted instance (live) or of an unmounted one, whose setState
\* calls have no effect.  navigate('/dashboard') unmounts MFAVerify.
VerifyAnswered(mode, live, answer) ==
  \E meta \in Metas :
    LET accepted == (mode = "login" /\ GrantsTokens(answer))
                    \/ (mode = "direct" /\ answer = "ack")
        stale == IF live THEN verifyStale
                 ELSE [verifyStale EXCEPT ![mode] = @ - 1]
        others == IF live THEN [verifyPc EXCEPT !.n = @ - 1] ELSE verifyPc
        kept == Component(page) = "dashboard"
    IN /\ lastEvent' = VerifyEvent(mode, live, accepted)
       /\ (mode = "login" /\ GrantsTokens(answer)) => nextTok <= MaxTok
       /\ ~(mode = "login" /\ GrantsTokens(answer))
            => meta = <<UNDEFINED, UNDEFINED>>
       /\ mode = "login" => answer # "ack"
       /\ mode = "direct" => answer \in {"ack", "error"}
       /\ IF mode = "login" /\ GrantsTokens(answer)
          THEN LET tokens == IssueTokens(nextTok, answer = "tokens", meta)
                   s2 == setTokens(Cur, tokens)
               IN /\ sessionStorage' = CredentialsRemoved(sessionStorage)
                  /\ Install(s2)
                  /\ lastOp' = [op |-> "set", arg |-> tokens]
                  /\ nextTok' = nextTok + 1
                  /\ page' = Landing("dashboard", s2)
                  /\ SettingsShown(kept, Landing("dashboard", s2), s2,
                                   confirmPc, disablePc)
          ELSE IF mode = "direct" /\ answer = "ack"
          THEN /\ page' = Landing("dashboard", Cur)
               /\ SettingsShown(kept, Landing("dashboard", Cur), Cur,
                                confirmPc, disablePc)
               /\ StoreUnchanged
               /\ UNCHANGED <<sessionStorage, nextTok, lastOp>>
          ELSE /\ StoreUnchanged
               /\ UNCHANGED <<sessionStorage, page, settingsVars, nextTok,
                              lastOp>>
       /\ IF accepted
          THEN /\ Fresh
               /\ verifyStale' = Orphaned(others, stale)
          ELSE IF live
          THEN /\ otp' = EmptyOtp
               /\ verifyLoading' = FALSE
               /\ verifyError' = TRUE
               /\ verifyPc' = IF others.n = 0 THEN IdleVerify ELSE others
               /\ verifyStale' = stale
               /\ UNCHANGED timeLeft
          ELSE /\ verifyStale' = stale
               /\ UNCHANGED <<otp, verifyLoading, verifyError, verifyPc,
                              timeLeft>>
       /\ UNCHANGED <<calls, loginPc, logoutPc>>

VerifyResponse ==
  /\ verifyPc.n > 0
  /\ \E answer \in VerifyAnswers : VerifyAnswered(verifyPc.mode, TRUE, answer)

StaleVerifyResponse ==
  \E mode \in {"login", "direct"}, answer \in VerifyAnswers :
    /\ verifyStale[mode] > 0
    /\ VerifyAnswered(mode, FALSE, answer)

\* The countdown of MFAVerify (lines 57-73): every second timeLeft goes
\* down by one until it is 0; nothing else is done when it gets there.
Tick ==
  /\ page = "mfaVerify"
  /\ timeLeft > 0
  /\ timeLeft' = timeLeft - 1
  /\ StoreUnchanged
  /\ UNCHANGED <<sessionStorage, calls, page, loginPc, otp, verifyLoading,
                 verifyError, verifyPc, verifyStale, logoutPc, settingsVars,
                 nextTok, lastOp>>
  /\ lastEvent' = "other"

\* "Get New Code", enabled once timeLeft is 0 (line 268): handleResend
\* (lines 191-208) calls authManager.refreshMFA, which AuthManager does not
\* have (auth.ts 15-112); the TypeError is caught and a toast is shown.
HandleResend ==
  /\ page = "mfaVerify"
  /\ timeLeft = 0
  /\ StoreUnchanged
  /\ UNCHANGED <<sessionStorage, calls, page, loginPc, mfaVerifyVars,
                 logoutPc, settingsVars, nextTok, lastOp>>
  /\ lastEvent' = "resendFailed"

\* MFAVerify, "Sign in with different account" (lines 288-291).
Cancel ==
  /\ page = "mfaVerify"
  /\ Install(clearAuth(Cur))
  /\ lastOp' = [op |-> "clear", arg |-> NoTokens]
  /\ Navigate("login", clearAuth(Cur))
  /\ UNCHANGED <<sessionStorage, calls, loginPc, logoutPc, nextTok>>
  /\ lastEvent' = "other"

\* -------------------------------------------------------------- Dashboard
\* Dashboard.handleLogout up to the await of the logout exchange.
LogoutSubmit ==
  /\ page = "dashboard"
  /\ logoutPc = "idle"
  /\ logoutPc' = "awaiting"
  /\ StoreUnchanged
  /\ UNCHANGED <<sessionStorage, calls, page, loginPc, mfaVerifyVars,
                 settingsVars, nextTok, lastOp>>
  /\ lastEvent' = "other"

\* Answers of the logout exchange: apiCall resolves on an ok status and
\* throws an ApiError on any other status and on a network failure
\* (api.ts 108-159, 177-187).
LogoutAnswers == {"ack", "rejected", "neterr"}

\* Variant: the store is cleared only when the server acknowledged.
LogoutClears_onAck(answer) == answer = "ack"

\* Dashboard.tsx 25-31: the catch block only logs, clearAuth() follows the
\* try statement on every path.
LogoutClears(answer) == TRUE

\* Dashboard.handleLogout after the await (lines 26-37).
LogoutAnswered(answer) ==
  LET s2 == IF LogoutClears(answer) THEN clearAuth(Cur) ELSE Cur
  IN /\ logoutPc = "awaiting"
     /\ logoutPc' = "idle"
     /\ Install(s2)
     /\ lastOp' = [op |-> "clear", arg |-> NoTokens]
     /\ Navigate("login", s2)
     /\ UNCHANGED <<sessionStorage, calls, loginPc, nextTok>>
     /\ lastEvent' = IF answer = "ack" THEN "other" ELSE "logoutFailed"

LogoutResponse == \E answer \in LogoutAnswers : LogoutAnswered(answer)

\* The Enable MFA / Disable MFA button (Dashboard.tsx lines 134-150); the
\* profile shown is the one read at mount.
OpenMfa ==
  /\ page = "dashboard"
  /\ Navigate(IF mfaEnabled(dashUser) THEN "mfaDisable" ELSE "mfaSetup", Cur)
  /\ StoreUnchanged
  /\ UNCHANGED <<sessionStorage, calls, loginPc, logoutPc, nextTok, lastOp>>
  /\ lastEvent' = "other"

\* --------------------------------------------------------------- MFASetup
\* The /mfa/setup exchange of the mount effect answers (lines 27-35).
SetupAnswers == {"ok", "error"}
SetupResponse ==
  /\ setupPc = "awaiting"
  /\ setupPc' = "idle"
  /\ setupLoading' = FALSE
  /\ \E answer \in SetupAnswers : setupError' = (answer = "error")
  /\ StoreUnchanged
  /\ UNCHANGED <<sessionStorage, calls, page, loginPc, mfaVerifyVars,
                 logoutPc, dashUser,
                 mfaDisableVars, totpCode, confirming, confirmPc, nextTok,
                 lastOp>>
  /\ lastEvent' = "other"

\* The form is rendered once loading is over (lines 91-100); the code field
\* and Skip are disabled while confirming, Complete MFA Setup also while the
\* code is not six characters long (lines 190, 199, 209).
FieldEnabled(loading, busy) == ~loading /\ ~busy
ConfirmEnabled(loading, busy, code) ==
  ~loading /\ ~busy /\ Len(code) = OtpLength

\* The code field's onChange (lines 183-184):
\* e.target.value.replace(/\D/g, '').slice(0, 6).
Sanitize(text) ==
  LET digits == StripNonDigits(text)
  IN SubSeq(digits, 1, IF Len(digits) < OtpLength THEN Len(digits)
                       ELSE OtpLength)

\* What the code field is made to hold by typing or pasting.
FieldTexts ==
  {<<>>, SixDigits, Text(OtpLength - 1, DIGIT), Text(OtpLength + 1, DIGIT),
   <<LETTER>> \o Text(OtpLength - 1, DIGIT), <<LETTER>> \o SixDigits}

SetupType(text) ==
  /\ page = "mfaSetup"
  /\ FieldEnabled(setupLoading, confirming)
  /\ totpCode' = Sanitize(text)
  /\ setupError' = FALSE
  /\ StoreUnchanged
  /\ UNCHANGED <<sessionStorage, calls, page, loginPc, mfaVerifyVars,
                 logoutPc, dashUser,
                 mfaDisableVars, setupLoading, setupPc, confirming,
                 confirmPc, nextTok, lastOp>>
  /\ lastEvent' = "other"

\* MFASetup.handleConfirm up to its await or early return (lines 57-67):
\* what it leaves in confirming, error and the exchange in flight.
handleConfirm(code) ==
  IF code = <<>> \/ Len(code) # OtpLength
  THEN [confirming |-> confirming, error |-> TRUE, pc |-> confirmPc]
  ELSE [confirming |-> TRUE, error |-> FALSE,
        pc |-> [state |-> "awaiting", code |-> code, live |-> TRUE]]

\* Complete MFA Setup is clicked.  One handleConfirm exchange is followed at
\* a time.
SetupConfirm ==
  /\ page = "mfaSetup"
  /\ ConfirmEnabled(setupLoading, confirming, totpCode)
  /\ confirmPc.state = "idle"
  /\ LET v == handleConfirm(totpCode)
     IN /\ confirming' = v.confirming
        /\ setupError' = v.error
        /\ confirmPc' = v.pc
  /\ StoreUnchanged
  /\ UNCHANGED <<sessionStorage, calls, page, loginPc, mfaVerifyVars,
                 logoutPc, dashUser,
                 mfaDisableVars, setupLoading, setupPc, totpCode, nextTok,
                 lastOp>>
  /\ lastEvent' = "other"

\* Variant: the profile is marked enabled once a code was submitted.
ConfirmedProfile_optimistic(u, accepted) ==
  IF u[1] = "obj" THEN Obj(2) ELSE u

\* The cached profile after handleConfirm (lines 67-84): no branch writes
\* it.
ConfirmedProfile(u, accepted) == u

\* MFASetup.handleConfirm after the await (lines 67-84).
ConfirmAnswers == {"ack", "error"}
ConfirmResponse ==
  /\ confirmPc.state = "awaiting"
  /\ \E answer \in ConfirmAnswers :
       LET s2 == [Cur EXCEPT !.user = ConfirmedProfile(user, answer = "ack")]
       IN /\ Install(s2)
          /\ lastEvent' = IF answer = "ack" THEN "enrollAccepted"
                          ELSE "enrollRejected"
          /\ IF answer = "ack"
             THEN /\ page' = Landing("dashboard", s2)
                  /\ VerifyShown(Component(page) = "dashboard",
                                 Landing("dashboard", s2))
                  /\ SettingsShown(Component(page) = "dashboard",
                                   Landing("dashboard", s2), s2, IdleConfirm,
                                   disablePc)
             ELSE /\ confirmPc' = IdleConfirm
                  /\ confirming' = IF confirmPc.live THEN FALSE
                                   ELSE confirming
                  /\ setupError' = IF confirmPc.live THEN TRUE
                                   ELSE setupError
                  /\ UNCHANGED <<page, mfaVerifyVars, dashUser, setupLoading,
                                 setupPc, totpCode, mfaDisableVars>>
  /\ UNCHANGED <<sessionStorage, calls, loginPc, logoutPc, nextTok, lastOp>>

\* MFASetup.handleSkip (lines 87-89).
SetupSkip ==
  /\ page = "mfaSetup"
  /\ FieldEnabled(setupLoading, confirming)
  /\ Navigate("dashboard", Cur)
  /\ StoreUnchanged
  /\ UNCHANGED <<sessionStorage, calls, loginPc, logoutPc, nextTok, lastOp>>
  /\ lastEvent' = "skip"

\* ------------------------------------------------------------- MFADisable
\* What is typed into the password field.
PasswordTexts == {EMPTY_STR, PASSWORD}

\* The password field's onChange (part_002 131-134).
DisableType(text) ==
  /\ page = "mfaDisable"
  /\ ~showConfirmDialog
  /\ disablePassword' = text
  /\ disableError' = FALSE
  /\ StoreUnchanged
  /\ UNCHANGED <<sessionStorage, calls, page, loginPc, mfaVerifyVars,
                 logoutPc, dashUser, mfaSetupVars, showConfirmDialog,
                 disableLoading, disablePc, nextTok, lastOp>>
  /\ lastEvent' = "other"

\* "Disable Two-Factor Authentication" is disabled without a password and
\* while loading (part_002 150).
DisableEnabled(password, loading) == Truthy(password) /\ ~loading

\* handleDisable opens the dialog only with a password (part_002 27-31).
OpensDialog(password) == Truthy(password)

\* "Disable Two-Factor Authentication" is clicked: MFADisable.handleDisable
\* (part_002 26-32).
DisableOpen ==
  /\ page = "mfaDisable"
  /\ ~showConfirmDialog
  /\ DisableEnabled(disablePassword, disableLoading)
  /\ IF OpensDialog(disablePassword)
     THEN showConfirmDialog' = TRUE /\ UNCHANGED disableError
     ELSE disableError' = TRUE /\ UNCHANGED showConfirmDialog
  /\ StoreUnchanged
  /\ UNCHANGED <<sessionStorage, calls, page, loginPc, mfaVerifyVars,
                 logoutPc, dashUser, mfaSetupVars, disablePassword,
                 disableLoading, disablePc, nextTok, lastOp>>
  /\ lastEvent' = "other"

\* Cancel in the dialog (part_002 199-200).
DialogCancel ==
  /\ page = "mfaDisable"
  /\ showConfirmDialog
  /\ ~disableLoading
  /\ showConfirmDialog' = FALSE
  /\ StoreUnchanged
  /\ UNCHANGED <<sessionStorage, calls, page, loginPc, mfaVerifyVars,
                 logoutPc, dashUser, mfaSetupVars, disablePassword,
                 disableLoading, disableError, disablePc, nextTok, lastOp>>
  /\ lastEvent' = "other"

\* Cancel on the page (part_002 159-160).
DisableCancel ==
  /\ page = "mfaDisable"
  /\ ~showConfirmDialog
  /\ ~disableLoading
  /\ Navigate("dashboard", Cur)
  /\ StoreUnchanged
  /\ UNCHANGED <<sessionStorage, calls, loginPc, logoutPc, nextTok, lastOp>>
  /\ lastEvent' = "other"

\* MFADisable renders again after a state change: with a cached profile
\* that no longer says mfaEnabled it navigates to the dashboard
\* (part_002 19-24).
Rerendered(s, loading, dialog, error, dpc) ==
  IF mfaEnabled(getUser(s))
  THEN /\ disableLoading' = loading
       /\ showConfirmDialog' = dialog
       /\ disableError' = error
       /\ disablePc' = dpc
       /\ UNCHANGED <<page, mfaVerifyVars, dashUser, mfaSetupVars,
                      disablePassword>>
  ELSE /\ page' = Landing("dashboard", s)
       /\ VerifyShown(FALSE, Landing("dashboard", s))
       /\ SettingsShown(FALSE, Landing("dashboard", s), s, confirmPc, dpc)

\* "Yes, Disable MFA" is clicked: MFADisable.confirmDisable up to the await
\* of authFetch (part_002 34-42), in the lowest free slot.  Without access
\* token authFetch throws and the handler ends in the same step.  One
\* confirmDisable call is followed at a time.
DisableConfirm(c) ==
  /\ page = "mfaDisable"
  /\ showConfirmDialog
  /\ ~disableLoading
  /\ disablePc.slot = 0
  /\ calls[c].pc = "idle"
  /\ \A d \in Callers : d < c => calls[d].pc # "idle"
  /\ LET call == Started(calls[c], Cur)
     IN IF call.pc = "sent"
        THEN /\ SetCall(c, call)
             /\ disableLoading' = TRUE
             /\ disableError' = FALSE
             /\ disablePc' = [slot |-> c, password |-> disablePassword,
                              live |-> TRUE]
             /\ UNCHANGED <<page, mfaVerifyVars, dashUser, mfaSetupVars,
                            disablePassword, showConfirmDialog>>
        ELSE /\ Rerendered(Cur, FALSE, FALSE, TRUE, disablePc)
             /\ UNCHANGED calls
  /\ StoreUnchanged
  /\ UNCHANGED <<sessionStorage, loginPc, logoutPc, nextTok, lastOp>>
  /\ lastEvent' = "other"

\* Variant: the handler writes the cached profile itself.
DisabledProfile_written(u, result) == IF u[1] = "obj" THEN Obj(1) ELSE u

\* The cached profile after confirmDisable (part_002 44-75): the only write
\* is authManager.setUser on an ok answer, and AuthManager has no setUser
\* (auth.ts 15-112), so the call throws and the profile stays as it is.
DisabledProfile(u, result) == u

\* MFADisable.confirmDisable after authFetch returned or threw (part_002
\* 44-77): every way out sets an error message, ends loading and closes the
\* dialog; the ok branch throws at setUser before it navigates.
DisableResponse(c) ==
  /\ calls[c].pc = "done"
  /\ disablePc.slot = c
  /\ SetCall(c, IdleCall)
  /\ LET s2 == [Cur EXCEPT !.user = DisabledProfile(user, calls[c].result)]
     IN /\ Install(s2)
        /\ IF disablePc.live
           THEN Rerendered(s2, FALSE, FALSE, TRUE, IdleDisable)
           ELSE /\ disablePc' = IdleDisable
                /\ UNCHANGED <<page, mfaVerifyVars, dashUser, mfaSetupVars,
                               disablePassword, showConfirmDialog,
                               disableLoading, disableError>>
  /\ lastEvent' = IF calls[c].result = "200" THEN "disableAcked"
                  ELSE "disableFailed"
  /\ UNCHANGED <<sessionStorage, loginPc, logoutPc, nextTok, lastOp>>

\* The application is loaded (again) at some address: the AuthManager is
\* constructed from the durable entries and nothing that was in flight
\* resumes.  sessionStorage survives a reload.
Load(target) ==
    LET s2 == loadFromStorage(localStorage)
    IN /\ Install(s2)
       /\ lastOp' = [op |-> "load", arg |-> NoTokens]
       /\ page' = Route(target, s2)
       /\ Fresh
       /\ verifyStale' = NoStale
       /\ SettingsShown(FALSE, Route(target, s2), s2, IdleConfirm,
                        IdleDisable)
       /\ calls' = [c \in Callers |-> IdleCall]
       /\ loginPc' = "idle"
       /\ logoutPc' = "idle"
       /\ lastEvent' = IF Malformed(localStorage) THEN "loadRepaired"
                       ELSE "other"
       /\ UNCHANGED <<sessionStorage, nextTok>>

Pages == {"login", "mfaVerify", "dashboard"}
PageLoad == \E target \in Pages : Load(target)

\* ------------------------------------------------------------------- Init
\* Durable entries a previous run of the application can have left: no
\* session, a token pair, or a pair whose refresh token was stored from an
\* omitted field; a profile entry that parses, one that does not, or none.
PersistedTokens ==
  {<<NULL, NULL>>, <<Str(1), Str(1)>>, <<Str(1), UNDEFINED_STR>>}
PersistedUsers == {NULL, Json(1), Json(0)}

InitWith(users) ==
  \E pt \in PersistedTokens, pu \in users :
    LET ls == [k \in LsKeys |->
                 CASE k = "accessToken" -> pt[1]
                   [] k = "refreshToken" -> pt[2]
                   [] k = "user" -> pu
                   [] OTHER -> NULL]
        s0 == loadFromStorage(ls)
    IN /\ accessToken = s0.accessToken
       /\ refreshToken = s0.refreshToken
       /\ user = s0.user
       /\ localStorage = s0.localStorage
       /\ page = Route("login", s0)
       /\ sessionStorage = NoCredentials
       /\ calls = [c \in Callers |-> IdleCall]
       /\ loginPc = "idle"
       /\ otp = EmptyOtp
       /\ verifyLoading = FALSE
       /\ verifyError = FALSE
       /\ verifyPc = IdleVerify
       /\ verifyStale = NoStale
       /\ timeLeft = ChallengeWindow
       /\ logoutPc = "idle"
       /\ dashUser = NULL
       /\ setupLoading = FALSE
       /\ setupPc = "idle"
       /\ totpCode = <<>>
       /\ confirming = FALSE
       /\ setupError = FALSE
       /\ confirmPc = IdleConfirm
       /\ disablePassword = EMPTY_STR
       /\ showConfirmDialog = FALSE
       /\ disableLoading = FALSE
       /\ disableError = FALSE
       /\ disablePc = IdleDisable
       /\ nextTok = 2
       /\ lastOp = [op |-> "load", arg |-> NoTokens]
       /\ lastEvent = "other"

Init == InitWith(PersistedUsers)

Next ==
  \/ \E c \in Callers : AuthFetchStart(c)
  \/ \E c \in Callers : AuthFetchResponse(c)
  \/ \E c \in Callers : RefreshResponse(c)
  \/ \E c \in Callers : AuthFetchReturn(c)
  \/ LoginSubmit
  \/ LoginResponse
  \/ \E text \in PastedTexts : HandlePaste(text)
  \/ VerifyResponse
  \/ StaleVerifyResponse
  \/ Cancel
  \/ LogoutSubmit
  \/ LogoutResponse
  \/ PageLoad

Spec == Init /\ [][Next]_vars

\* The pages alone, with the code typed box by box, the settings pages,
\* and no authFetch call of another origin in flight.  The stored profile
\* may say that the second factor is enabled (Json(2)) or not (Json(1)).
FlowUsers == PersistedUsers \cup {Json(2)}
FlowPages == Pages \cup {"mfaSetup", "mfaDisable"}
FlowPageLoad == \E target \in FlowPages : Load(target)

InitFlow == InitWith(FlowUsers)

NextFlow ==
  \/ LoginSubmit
  \/ LoginResponse
  \/ \E index \in 1..OtpLength, value \in TypedValues :
       HandleChange(index, value)
  \/ \E text \in PastedTexts : HandlePaste(text)
  \/ VerifyResponse
  \/ StaleVerifyResponse
  \/ Cancel
  \/ LogoutSubmit
  \/ LogoutResponse
  \/ OpenMfa
  \/ SetupResponse
  \/ \E text \in FieldTexts : SetupType(text)
  \/ SetupConfirm
  \/ ConfirmResponse
  \/ SetupSkip
  \/ \E text \in PasswordTexts : DisableType(text)
  \/ DisableOpen
  \/ DialogCancel
  \/ DisableCancel
  \/ \E c \in Callers : DisableConfirm(c)
  \/ \E c \in Callers : AuthFetchResponse(c)
  \/ \E c \in Callers : RefreshResponse(c)
  \/ \E c \in Callers : DisableResponse(c)
  \/ FlowPageLoad

SpecFlow == InitFlow /\ [][NextFlow]_vars

\* The login flow with the countdown of its code step running: Login,
\* MFAVerify with the code pasted, and the dashboard's logout.
NextLogin ==
  \/ LoginSubmit
  \/ LoginResponse
  \/ \E text \in PastedTexts : HandlePaste(text)
  \/ VerifyResponse
  \/ StaleVerifyResponse
  \/ Tick
  \/ HandleResend
  \/ Cancel
  \/ LogoutSubmit
  \/ LogoutResponse
  \/ PageLoad

SpecLogin == Init /\ [][NextLogin]_vars

\* The Session Store alone: the AuthManager is constructed over durable
\* entries of any content (another tab, an earlier version of the
\* application or the user may have written them), and its callers apply
\* setTokens and clearAuth.  Before the constructor has run the fields hold
\* their initialisers (auth.ts 17-19) and no method can be called.
StoredTokens == {NULL, Str(1), UNDEFINED_STR}
StoredUsers == {NULL, Json(0), Json(1), Json(2)}
StoredRecords ==
  {[k \in LsKeys |->
      CASE k = "accessToken" -> at
        [] k = "refreshToken" -> rt
        [] k = "user" -> pu
        [] k = "tokenType" -> tt
        [] OTHER -> ex] :
     at \in StoredTokens, rt \in StoredTokens, pu \in StoredUsers,
     tt \in {NULL, BEARER}, ex \in {NULL, NumStr(1)}}

\* Sessions a caller hands to setTokens.
SetSessions ==
  {IssueTokens(n, withRefresh, meta) :
     n \in 2..MaxTok, withRefresh \in BOOLEAN, meta \in Metas}

Constructed == lastOp.op # "new"

\* No page is mounted and nothing is in flight.
PagesIdle ==
  /\ page = "login"
  /\ sessionStorage = NoCredentials
  /\ calls = [c \in Callers |-> IdleCall]
  /\ loginPc = "idle"
  /\ otp = EmptyOtp
  /\ verifyLoading = FALSE
  /\ verifyError = FALSE
  /\ verifyPc = IdleVerify
  /\ verifyStale = NoStale
  /\ timeLeft = ChallengeWindow
  /\ logoutPc = "idle"
  /\ dashUser = NULL
  /\ setupLoading = FALSE
  /\ setupPc = "idle"
  /\ totpCode = <<>>
  /\ confirming = FALSE
  /\ setupError = FALSE
  /\ confirmPc = IdleConfirm
  /\ disablePassword = EMPTY_STR
  /\ showConfirmDialog = FALSE
  /\ disableLoading = FALSE
  /\ disableError = FALSE
  /\ disablePc = IdleDisable
  /\ nextTok = 2
  /\ lastEvent = "other"

InitStore ==
  /\ accessToken = NULL
  /\ refreshToken = NULL
  /\ user = NULL
  /\ localStorage \in StoredRecords
  /\ lastOp = [op |-> "new", arg |-> NoTokens]
  /\ PagesIdle

\* The module is evaluated: getInstance() constructs the AuthManager
\* (auth.ts 21-30, 114); also every later reload of the application.
StoreLoad == Load("login")

\* A caller applies setTokens(tokens).
StoreSet(tokens) ==
  /\ Constructed
  /\ Install(setTokens(Cur, tokens))
  /\ lastOp' = [op |-> "set", arg |-> tokens]
  /\ lastEvent' = "other"
  /\ UNCHANGED <<sessionStorage, calls, page, loginPc, mfaVerifyVars,
                 logoutPc, settingsVars, nextTok>>

\* A caller applies clearAuth().
StoreClear ==
  /\ Constructed
  /\ Install(clearAuth(Cur))
  /\ lastOp' = [op |-> "clear", arg |-> NoTokens]
  /\ lastEvent' = IF Absent(Cur) THEN "clearedAgain" ELSE "other"
  /\ UNCHANGED <<sessionStorage, calls, page, loginPc, mfaVerifyVars,
                 logoutPc, settingsVars, nextTok>>

NextStore ==
  \/ StoreLoad
  \/ \E tokens \in SetSessions : StoreSet(tokens)
  \/ StoreClear

SpecStore == InitStore /\ [][NextStore]_vars

\* ================================================================= claims

Refreshing == {c \in Callers : calls[c].pc = "refreshing"}

\* C1: authFetch calls that are in flight together and are each answered
\* 401 share one refresh exchange: a call that arrives while a refresh
\* exchange is outstanding starts no second one, so at most one
\* POST /auth/refresh is outstanding at any time.
C1_SingleFlight == Cardinality(Refreshing) <= 1

\* C2: a refresh exchange that fails (rejection, network error, unusable
\* answer) leaves access token, refresh token and profile null at the moment
\* refreshTokens returns; the store is shared, so every caller reads that.
C2_FailedRefreshClears ==
  [][\A c \in Callers :
       (calls[c].pc = "refreshing" /\ calls'[c].refreshRet = "false")
         => (accessToken' = NULL /\ refreshToken' = NULL /\ user' = NULL)]_vars

\* C2 witness: a call whose refresh exchange failed has returned, the store
\* is absent, and another call, which did not start that refresh, is in
\* flight.
C2_Witness ==
  \E c \in Callers, d \in Callers :
    /\ c # d
    /\ calls[c].pc = "done" /\ calls[c].exchanges = 1
    /\ calls[c].refreshRet = "false"
    /\ calls[d].pc = "sent"
    /\ Absent(Cur)

\* C3: after a 401 and a successful refresh, the request is resent with the
\* access token the refresh exchange granted, not with the token of the
\* first send, and whatever the resend yields is what the caller gets.
C3_ResendWithRenewedToken ==
  \A c \in Callers :
    /\ (calls[c].pc = "sent" /\ calls[c].sends = 2)
         => /\ calls[c].refreshRet = "true"
            /\ calls[c].authorization = calls[c].granted
            /\ calls[c].authorization # calls[c].token
    /\ (calls[c].pc = "done" /\ calls[c].sends = 2)
         => /\ calls[c].response \in Statuses
              => calls[c].result = calls[c].response
            /\ calls[c].response = "neterr"
              => calls[c].result = "NetworkFailure"

\* C3 witness: a call that was resent after a successful refresh returned
\* the resend's domain error.
C3_Witness ==
  \E c \in Callers :
    /\ calls[c].pc = "done" /\ calls[c].sends = 2
    /\ calls[c].refreshRet = "true"
    /\ calls[c].firstResp = "401" /\ calls[c].result = "403"

\* C4: one authFetch call sends the wrapped request at most twice and calls
\* refreshTokens at most once, whatever the server answers; a 401 on the
\* resend is returned as it is.
C4_BoundedRetry ==
  \A c \in Callers :
    /\ calls[c].sends <= 2
    /\ calls[c].refreshCalls <= 1
    /\ calls[c].exchanges <= 1
    /\ (calls[c].pc = "done" /\ calls[c].sends = 2
        /\ calls[c].response = "401")
         => (calls[c].result = "401" /\ calls[c].refreshCalls = 1)

\* C4 witness: both sends of a call were answered 401 and the call returned
\* after one refresh.
C4_Witness ==
  \E c \in Callers :
    /\ calls[c].pc = "done" /\ calls[c].sends = 2
    /\ calls[c].firstResp = "401" /\ calls[c].response = "401"
    /\ calls[c].refreshCalls = 1

\* C5: refreshTokens is called if and only if the first response is a 401;
\* any other status is returned unchanged, without a refresh exchange and
\* without a change of the store.
C5_RefreshOnlyOn401 ==
  /\ [](\A c \in Callers :
          calls[c].firstResp # "none"
            => /\ (calls[c].refreshCalls >= 1) <=> (calls[c].firstResp = "401")
               /\ calls[c].firstResp # "401" => calls[c].exchanges = 0)
  /\ [][\A c \in Callers :
          (/\ calls[c].pc = "sent" /\ calls[c].sends = 1
           /\ calls'[c].firstResp \in Statuses \ {"401"})
            => /\ calls'[c].pc = "done"
               /\ calls'[c].result = calls'[c].firstResp
               /\ calls'[c].sends = 1
               /\ StoreUnchanged]_vars

\* C5 witness: on an active session a first response 403 was returned to
\* the caller and no refresh was called.
C5_Witness ==
  \E c \in Callers :
    /\ calls[c].pc = "done" /\ calls[c].firstResp = "403"
    /\ calls[c].result = "403" /\ calls[c].refreshCalls = 0
    /\ isAuthenticated(Cur)

\* C6: without an access token authFetch fails at once with
\* Unauthenticated, sends nothing and leaves the store as it is.
C6_UnauthenticatedNoSend ==
  /\ [](\A c \in Callers :
          calls[c].result = "Unauthenticated" => calls[c].sends = 0)
  /\ [][\A c \in Callers :
          (/\ calls[c].pc = "idle" /\ calls'[c].pc # "idle"
           /\ ~isAuthenticated(Cur))
            => /\ calls'[c].pc = "done"
               /\ calls'[c].result = "Unauthenticated"
               /\ calls'[c].sends = 0
               /\ StoreUnchanged]_vars

\* C6 witness: a call made without access token has failed with
\* Unauthenticated.
C6_Witness ==
  \E c \in Callers :
    /\ calls[c].pc = "done" /\ calls[c].result = "Unauthenticated"
    /\ ~isAuthenticated(Cur)

\* C7: when a call is answered 401 and the renewal fails, the caller gets
\* the outcome SessionExpired (not the 401 response), the request is not
\* resent, and the store is cleared when the call returns.
C7_SessionExpired ==
  [][\A c \in Callers :
       (/\ calls[c].pc # "done" /\ calls'[c].pc = "done"
        /\ calls'[c].firstResp = "401" /\ calls'[c].refreshRet = "false")
         => /\ calls'[c].result = "SessionExpired"
            /\ calls'[c].sends = 1
            /\ accessToken' = NULL /\ refreshToken' = NULL /\ user' = NULL]_vars

\* C8: refreshTokens called with an access token but without a refresh
\* token returns false and clears the store before it returns.
C8_MissingRefreshTokenClears ==
  [][\A c \in Callers :
       (/\ calls'[c].refreshCalls = calls[c].refreshCalls + 1
        /\ isAuthenticated(Cur) /\ ~Truthy(refreshToken))
         => /\ calls'[c].refreshRet = "false"
            /\ accessToken' = NULL
            /\ ~Truthy(accessToken')]_vars

\* The durable entry of a session field: an omitted field has no entry.
Persisted(v) == IF v = UNDEFINED THEN NULL ELSE toText(v)

\* C9: right after setTokens(session) the store returns that session, equal
\* in access token, refresh token, token type and expiry; right after
\* clearAuth() tokens and profile are absent.
C9_SetThenGet ==
  /\ lastOp.op = "set"
       => /\ getAccessToken(Cur) = lastOp.arg.accessToken
          /\ getRefreshToken(Cur) = lastOp.arg.refreshToken
          /\ localStorage["tokenType"] = Persisted(lastOp.arg.tokenType)
          /\ localStorage["expiresIn"] = Persisted(lastOp.arg.expiresIn)
  /\ lastOp.op = "clear" => Absent(Cur)

\* C10: in every reachable state the access token and the refresh token are
\* both present and non-empty, or both absent.
C10_TokensPaired ==
  \/ Truthy(accessToken) /\ Truthy(refreshToken)
  \/ accessToken = NULL /\ refreshToken = NULL

\* A six-digit code.
ValidCode(code) == Len(code) = OtpLength /\ AllDigits(code)

\* A step in which a code is typed, pasted or confirmed.
CodeEntered ==
  \/ \E index \in 1..OtpLength, value \in TypedValues :
       HandleChange(index, value)
  \/ \E text \in PastedTexts : HandlePaste(text)
  \/ \E text \in FieldTexts : SetupType(text)
  \/ SetupConfirm

\* C11: a code whose length is not six or that contains a non-digit never
\* produces a network call, on the login code step and on the enrollment
\* confirmation: every exchange handleVerify or handleConfirm has in flight
\* carries six digits, and a step in which a code is entered starts an
\* exchange only with six digits and leaves the Session Store and the
\* stored credentials as they were.
C11_InvalidCodeNotSent ==
  /\ [](/\ verifyPc.n > 0 => ValidCode(verifyPc.code)
        /\ confirmPc.state = "awaiting" => ValidCode(confirmPc.code))
  /\ [][CodeEntered =>
          /\ UNCHANGED <<accessToken, refreshToken, user, localStorage,
                         sessionStorage>>
          /\ verifyPc' # verifyPc => ValidCode(verifyPc'.code)
          /\ confirmPc' # confirmPc => ValidCode(confirmPc'.code)]_vars

\* An incomplete code is in the enrollment field (a letter and five digits
\* were pasted, or five digits typed) and nothing was sent.
C11_Witness ==
  /\ page = "mfaSetup"
  /\ Len(totpCode) = OtpLength - 1
  /\ confirmPc.state = "idle"
  /\ InFlight = 0

\* The stored credentials of the login being completed (PendingChallenge).
ChallengeHeld ==
  Truthy(sessionStorage.tempLoginEmail)
  /\ Truthy(sessionStorage.tempLoginPassword)

\* The code step of a login: the code page is shown and a code submitted
\* there replays the stored credentials.
SecondFactorPending == page = "mfaVerify" /\ ChallengeHeld

\* A step of Login.handleSubmit whose answer asks for the second factor.
MfaRequired ==
  \E answer \in LoginAnswers : RequiresMfa(answer) /\ LoginAnswered(answer)

\* C12: when the login exchange answers that a second factor is required,
\* the credentials are stored, the flow is at the code step and the Session
\* Store is not written, also when the answer carries tokens; at the code
\* step the Session Store is absent.
C12_ChallengeStoredNoSession ==
  /\ [](SecondFactorPending => Absent(Cur))
  /\ [][MfaRequired =>
          /\ sessionStorage' = [tempLoginEmail |-> toText(EMAIL),
                                tempLoginPassword |-> toText(PASSWORD)]
          /\ UNCHANGED <<accessToken, refreshToken, user, localStorage>>
          /\ SecondFactorPending']_vars

\* A step in which the exchange of a code submitted at the code step of a
\* login is answered with a rejection.
RejectedCode ==
  /\ verifyPc.n > 0
  /\ verifyPc.mode = "login"
  /\ \E answer \in {"noToken", "error"} : VerifyAnswered("login", TRUE, answer)

\* C13: when the server rejects a code submitted in SecondFactorPending,
\* the flow is still at the code step, the Session Store is absent, the
\* credentials are still stored, the boxes are empty and a code can be
\* entered again; nothing counts the rejections.
C13_RejectionKeepsPending ==
  [][RejectedCode =>
       /\ SecondFactorPending'
       /\ accessToken' = NULL /\ refreshToken' = NULL /\ user' = NULL
       /\ otp' = EmptyOtp
       /\ InputEnabled(verifyLoading')]_vars

\* A step in which the exchange of a code submitted at the code step of a
\* login is answered with tokens.
AcceptedCode(answer) ==
  /\ verifyPc.n > 0
  /\ verifyPc.mode = "login"
  /\ GrantsTokens(answer)
  /\ VerifyAnswered("login", TRUE, answer)

\* The flow has ended with a session: the dashboard is shown to a client
\* that holds an access token.
Established == Component(page) = "dashboard" /\ isAuthenticated(Cur)

\* C14: when the server accepts a code, the stored credentials are removed,
\* the Session Store holds exactly the tokens of the answer, and the flow is
\* Established.
C14_AcceptedCodeEstablishes ==
  [][\A answer \in VerifyAnswers :
       AcceptedCode(answer) =>
         /\ ~ChallengeHeld'
         /\ \E meta \in Metas :
              LET tokens == IssueTokens(nextTok, answer = "tokens", meta)
              IN /\ accessToken' = tokens.accessToken
                 /\ refreshToken' = tokens.refreshToken
                 /\ lastOp' = [op |-> "set", arg |-> tokens]
         /\ Established']_vars

\* A code was just accepted: the dashboard is shown, the store holds the
\* tokens handed to setTokens and no credentials are stored.
C14_Witness ==
  /\ lastEvent = "codeAccepted"
  /\ Established
  /\ accessToken = lastOp.arg.accessToken
  /\ ~ChallengeHeld

\* C15: in every terminal state of the flow, Established or Abandoned, no
\* credentials are stored: they are gone once the dashboard is shown to a
\* signed-in client and once "Sign in with different account" was chosen.
C15_TerminalWithoutChallenge ==
  /\ [](Established => ~ChallengeHeld)
  /\ [][Cancel => ~ChallengeHeld']_vars

\* A step in which a handleVerify exchange is answered after the code page
\* that sent it was left.
StaleCompletion ==
  \E mode \in {"login", "direct"}, answer \in VerifyAnswers :
    /\ verifyStale[mode] > 0
    /\ VerifyAnswered(mode, FALSE, answer)

\* C16: the completion of an exchange that was in flight when the flow was
\* cancelled is discarded: it does not write the Session Store and does
\* not move the flow.
C16_StaleResponseDiscarded ==
  [][StaleCompletion =>
       UNCHANGED <<accessToken, refreshToken, user, localStorage, page>>]_vars

\* The Verify button is enabled in no reachable state.
ButtonNeverEnabled == page = "mfaVerify" => ~ButtonEnabled(verifyLoading, otp)

\* C17: while a verification exchange of the code step is in progress, a
\* second submission (last box typed, paste, Verify button) is suppressed:
\* the mounted code page has at most one exchange outstanding, and it is
\* loading while it has one.
C17_OneVerification ==
  /\ verifyPc.n <= 1
  /\ verifyPc.n > 0 => verifyLoading
  /\ ButtonNeverEnabled

\* A verification exchange is in progress and the boxes, which hold the
\* submitted code, are disabled.
C17_Witness ==
  /\ page = "mfaVerify"
  /\ verifyPc.n = 1
  /\ verifyLoading
  /\ Join(otp) = SixDigits
  /\ ~InputEnabled(verifyLoading)

\* A step in which the exchange of handleConfirm is answered.
EnrollmentAnswered(answer) ==
  /\ confirmPc.state = "awaiting"
  /\ lastEvent' = IF answer = "ack" THEN "enrollAccepted"
                  ELSE "enrollRejected"
  /\ ConfirmResponse

\* The cached profile says that the second factor is enabled / not enabled.
FlagTrue(s) == mfaEnabled(getUser(s))
FlagFalse(s) == Truthy(getUser(s)) /\ ~mfaEnabled(getUser(s))

\* C18: a rejected enrollment confirmation and a skip leave the cached
\* profile's flag false, and the flag of a cached profile never becomes
\* true in a step that is not the acceptance of an enrollment code.
C18_FlagStaysFalse ==
  [][/\ (EnrollmentAnswered("error") \/ SetupSkip) /\ FlagFalse(Cur)
          => user' = user
     /\ ~FlagTrue(Cur) /\ mfaEnabled(user') => EnrollmentAnswered("ack")]_vars

\* An enrollment code was just rejected and the cached profile still says
\* that the second factor is not enabled.
C18_Witness ==
  /\ lastEvent = "enrollRejected"
  /\ page = "mfaSetup"
  /\ setupError
  /\ FlagFalse(Cur)

\* C19: an accepted enrollment confirmation sets the cached profile's flag,
\* so that getUser() reports the second factor as enabled.
C19_AcceptedEnrollmentSetsFlag ==
  [][EnrollmentAnswered("ack") /\ Truthy(getUser(Cur))
       => mfaEnabled(user')]_vars

\* A step in which confirmDisable gets the outcome of its authFetch call.
DisableAnswered == \E c \in Callers : DisableResponse(c)

\* C20: the cached profile's flag changes from true to false only by a
\* disable exchange that carried a non-empty password and was acknowledged;
\* no disable request is sent without a password; when the server rejects
\* or the exchange fails the flag is not made false.
C20_FlagClearedOnlyByDisable ==
  /\ [](disablePc.slot # 0 => Truthy(disablePc.password))
  /\ [][/\ FlagTrue(Cur) /\ Truthy(user') /\ ~mfaEnabled(user')
             => /\ DisableAnswered
                /\ lastEvent' = "disableAcked"
                /\ Truthy(disablePc.password)
        /\ DisableAnswered /\ lastEvent' = "disableFailed" /\ FlagTrue(Cur)
             => ~FlagFalse(Cur)']_vars

\* The disable exchange, sent with the password, was just rejected or has
\* failed, and the cached profile still says enabled.
C20_Witness ==
  /\ lastEvent = "disableFailed"
  /\ page = "mfaDisable"
  /\ disableError
  /\ FlagTrue(Cur)

\* C21: logout is best-effort: whatever the logout exchange answers
\* (acknowledgement, rejection by the server, network failure), tokens and
\* profile are absent, in memory and in their durable entries, when
\* handleLogout has run, and the login page is shown.
C21_LogoutAlwaysClears ==
  [][\A answer \in LogoutAnswers :
       LogoutAnswered(answer) =>
         /\ Absent(Cur)'
         /\ Absent(loadFromStorage(localStorage'))
         /\ page' = "login"]_vars

\* The logout exchange was rejected or has failed; the store is absent and
\* the durable entries hold no session.
C21_Witness ==
  /\ lastEvent = "logoutFailed"
  /\ Absent(Cur)
  /\ Absent(loadFromStorage(localStorage))
  /\ page = "login"

\* C22: load() never throws: constructed over a durable record whose
\* profile entry does not parse, the store comes up without session (tokens
\* and profile null, isAuthenticated() false) and the accessToken,
\* refreshToken and user entries are removed; a record that was loaded
\* holds no profile entry that does not parse.
C22_MalformedLoadsAbsent ==
  /\ [](Constructed => ~Malformed(localStorage))
  /\ [][(StoreLoad /\ Malformed(localStorage)) =>
          /\ Absent(Cur)'
          /\ ~isAuthenticated(Cur)'
          /\ \A k \in {"accessToken", "refreshToken", "user"} :
               localStorage'[k] = NULL]_vars

\* The constructor has just run over a record with tokens and a profile
\* entry that does not parse: no session, no token or profile entry.
C22_Witness ==
  /\ lastEvent = "loadRepaired"
  /\ lastOp.op = "load"
  /\ Absent(Cur)
  /\ ~isAuthenticated(Cur)
  /\ localStorage["accessToken"] = NULL
  /\ localStorage["user"] = NULL

\* C23: clear() is idempotent: from every state of the store, clearAuth
\* applied twice leaves the fields and the durable entries as clearAuth
\* applied once does, and clearAuth on a store without session changes
\* nothing.
C23_ClearIdempotent ==
  /\ [](Constructed =>
          /\ clearAuth(clearAuth(Cur)) = clearAuth(Cur)
          /\ Absent(Cur) => clearAuth(Cur) = Cur)
  /\ [][(StoreClear /\ Absent(Cur)) => StoreUnchanged]_vars

\* clearAuth was applied to a store that was absent already, after another
\* clearAuth or after a load without session.
C23_Witness ==
  /\ lastEvent = "clearedAgain"
  /\ lastOp.op = "clear"
  /\ Absent(Cur)
  /\ clearAuth(Cur) = Cur

\* The refresh exchange of call d was started before the one of call c
\* settled: the service numbers the pairs it issues, and d's exchange
\* carries a refresh token older than the pair c was granted.
StartedBefore(d, c) ==
  /\ calls[d].pc = "refreshing"
  /\ calls[c].refreshRet = "true"
  /\ calls[c].granted # NULL
  /\ calls[d].rfBody[1] = "str"
  /\ calls[d].rfBody[2] < calls[c].granted[2]

\* C24: callers that await a token renewal at the same time get the same
\* outcome: when refreshTokens has returned true to one call, it does not
\* return false to another call that was awaiting its renewal during the
\* same period.
C24_SameOutcome ==
  [][\A c \in Callers, d \in Callers :
       (c # d /\ StartedBefore(d, c)) => calls'[d].refreshRet # "false"]_vars

\* C25: no in-flight marker outlives a refresh exchange: refreshTokens
\* called with a refresh token present starts a network exchange of its own,
\* carrying the refresh token the store holds at that moment, whether or
\* not an earlier exchange has settled, and has no outcome before that
\* exchange settles.
C25_SettledRefreshForgotten ==
  [][\A c \in Callers :
       (/\ calls'[c].refreshCalls = calls[c].refreshCalls + 1
        /\ Truthy(refreshToken))
         => /\ calls'[c].pc = "refreshing"
            /\ calls'[c].exchanges = calls[c].exchanges + 1
            /\ calls'[c].rfBody = refreshToken
            /\ calls'[c].refreshRet = "none"]_vars

\* The refresh exchange of one call has settled with success, and another
\* call, answered 401 afterwards, has an exchange of its own in flight that
\* carries the refresh token the first exchange was granted.
C25_Witness ==
  \E c \in Callers, d \in Callers :
    /\ c # d
    /\ calls[c].refreshRet = "true"
    /\ calls[c].granted # NULL
    /\ calls[d].pc = "refreshing"
    /\ calls[d].exchanges = 1
    /\ calls[d].rfBody = calls[c].granted

\* A step of Login.handleSubmit whose exchange the service rejected.
LoginRejected ==
  \E answer \in LoginAnswers : Rejects(answer) /\ LoginAnswered(answer)

\* C26: a login that the identity service rejects leaves the Session Store
\* as it was, fields and durable entries, stores no credentials for a code
\* step and leaves the login page shown.
C26_RejectedLoginNoEffect ==
  [][LoginRejected =>
       /\ UNCHANGED <<accessToken, refreshToken, user, localStorage>>
       /\ UNCHANGED sessionStorage
       /\ ~ChallengeHeld => ~ChallengeHeld'
       /\ page' = page]_vars

\* A login was just rejected: the login page is shown, no credentials are
\* stored and no session exists.
C26_Witness ==
  /\ lastEvent = "loginRejected"
  /\ page = "login"
  /\ loginPc = "idle"
  /\ ~ChallengeHeld
  /\ Absent(Cur)

\* C27: when a refresh exchange succeeds, the Session Store holds the token
\* pair that exchange returned, access token and refresh token both
\* replaced, in the fields and in the durable entries, and the profile is
\* as it was, in every step in which refreshTokens returns true.
C27_RefreshInstallsPair ==
  [][\A c \in Callers :
       (calls[c].pc = "refreshing" /\ calls'[c].refreshRet = "true") =>
         \E withRefresh \in BOOLEAN, meta \in Metas :
           LET tokens == IssueTokens(nextTok, withRefresh, meta)
           IN /\ lastOp' = [op |-> "set", arg |-> tokens]
              /\ calls'[c].granted = tokens.accessToken
              /\ accessToken' = tokens.accessToken
              /\ refreshToken' = tokens.refreshToken
              /\ accessToken' # accessToken
              /\ localStorage'["accessToken"] = toText(tokens.accessToken)
              /\ localStorage'["refreshToken"] = toText(tokens.refreshToken)
              /\ user' = user
              /\ localStorage'["user"] = localStorage["user"]]_vars

\* The refresh exchange of a call has just succeeded on a session with a
\* profile: the store holds the granted pair, the profile is still there
\* and the request was resent.
C27_Witness ==
  \E c \in Callers :
    /\ calls[c].pc = "sent" /\ calls[c].sends = 2
    /\ calls[c].refreshRet = "true"
    /\ lastOp.op = "set"
    /\ accessToken = calls[c].granted
    /\ accessToken = lastOp.arg.accessToken
    /\ refreshToken = lastOp.arg.refreshToken
    /\ Truthy(refreshToken)
    /\ Truthy(user)

\* A step in which an exchange that carried the code without credentials
\* is answered, with its page mounted or not.
CodeOnlyCompletion ==
  \/ /\ verifyPc.n > 0
     /\ verifyPc.mode = "direct"
     /\ \E answer \in VerifyAnswers : VerifyAnswered("direct", TRUE, answer)
  \/ /\ verifyStale.direct > 0
     /\ \E answer \in VerifyAnswers : VerifyAnswered("direct", FALSE, answer)

\* C28: every exchange sent at the code step of a login carries the stored
\* email and password together with the six-digit code, and no exchange that
\* carried the code alone writes a session into the store.
C28_CodeSentWithCredentials ==
  /\ [][(SecondFactorPending /\ verifyPc'.n = verifyPc.n + 1) =>
          /\ verifyPc'.mode = "login"
          /\ verifyPc'.email = toText(EMAIL)
          /\ verifyPc'.password = toText(PASSWORD)
          /\ ValidCode(verifyPc'.code)]_vars
  /\ [][CodeOnlyCompletion =>
          UNCHANGED <<accessToken, refreshToken, user, localStorage>>]_vars

\* At the code step of a login a code was submitted: the exchange in
\* flight replays the stored credentials with the code.
C28_Witness ==
  /\ SecondFactorPending
  /\ verifyPc.n = 1
  /\ verifyPc.mode = "login"
  /\ verifyPc.email = sessionStorage.tempLoginEmail
  /\ verifyPc.password = sessionStorage.tempLoginPassword
  /\ verifyPc.code = SixDigits

\* The countdown of the mounted code page has run out.
TimedOut == page = "mfaVerify" /\ timeLeft = 0

\* C29: when the challenge window of the code step runs out, the flow is
\* abandoned and the stored credentials are removed: the code step is not
\* shown with the countdown at 0, and once it has run out no submitted code
\* is sent with the stored credentials and none establishes a session.
C29_TimeoutAbandons ==
  /\ [](TimedOut => ~ChallengeHeld)
  /\ [][TimedOut =>
          /\ verifyPc'.n <= verifyPc.n
          /\ \A answer \in VerifyAnswers : ~AcceptedCode(answer)]_vars

\* The state of the step-up flow, read off the page shown.  Abandoned is
\* the login page again, which is where a new flow is Idle.
FlowState ==
  CASE page = "mfaVerify" /\ ChallengeHeld -> "SecondFactorPending"
    [] Component(page) = "dashboard" /\ isAuthenticated(Cur) -> "Established"
    [] page = "login" /\ loginPc = "awaiting" -> "CredentialsSubmitted"
    [] page = "login" /\ loginPc = "idle" -> "Idle"
    [] OTHER -> "outside"

\* C30: the flow moves only from Idle to CredentialsSubmitted, from there to
\* Established or SecondFactorPending (or back, when the login is
\* rejected), and from SecondFactorPending to Established or Abandoned.  An
\* answer that asks for the second factor puts the flow at the code step
\* whether or not a session exists, and the code step is left only by an
\* accepted code or a cancel.  Reloading the application starts over and is
\* not a step of the flow.
C30_FlowTransitions ==
  [][~PageLoad =>
       /\ (FlowState = "Idle" /\ FlowState' # "Idle")
            => FlowState' = "CredentialsSubmitted"
       /\ FlowState = "CredentialsSubmitted"
            => FlowState' \in {"CredentialsSubmitted", "Established",
                               "SecondFactorPending", "Idle"}
       /\ MfaRequired => FlowState' = "SecondFactorPending"
       /\ (FlowState = "SecondFactorPending"
           /\ FlowState' # "SecondFactorPending")
            => /\ FlowState' \in {"Established", "Idle"}
               /\ Cancel \/ \E answer \in VerifyAnswers :
                               AcceptedCode(answer)]_vars

\* A step of Login.handleSubmit whose answer grants a session directly.
LoginGranted ==
  \E answer \in LoginAnswers : GrantsTokens(answer) /\ LoginAnswered(answer)

\* C31: whenever a login succeeds, directly or by an accepted code, the
\* cached profile is created or replaced: after the step getUser() returns
\* a profile.
C31_LoginCachesProfile ==
  [][(LoginGranted \/ \E answer \in VerifyAnswers : AcceptedCode(answer))
       => Truthy(user')]_vars

\* C32: in every state of the constructed store a profile is present only if
\* a session is present: when the access token is absent the profile is
\* absent too, in memory and in the durable user entry.
C32_ProfileOnlyWithSession ==
  (Constructed /\ ~Truthy(accessToken))
    => (user = NULL /\ localStorage["user"] = NULL)

\* The transport fails on the first send of call c.
FirstSendFails(c) ==
  /\ calls[c].pc = "sent"
  /\ calls[c].sends = 1
  /\ calls'[c].firstResp = "neterr"

\* C33: when the transport cannot complete the first send of an authFetch
\* call, the call ends with the failure, no refresh exchange is started, the
\* request is not sent again and the store is unchanged.
C33_NetworkFailurePropagates ==
  /\ [](\A c \in Callers :
          calls[c].firstResp = "neterr"
            => /\ calls[c].pc = "done"
               /\ calls[c].result = "NetworkFailure"
               /\ calls[c].refreshCalls = 0
               /\ calls[c].exchanges = 0
               /\ calls[c].sends = 1)
  /\ [][\A c \in Callers :
          FirstSendFails(c)
            => /\ calls'[c].pc = "done"
               /\ calls'[c].result = "NetworkFailure"
               /\ StoreUnchanged]_vars

\* A call whose first send failed while the store held a refresh token that
\* a refresh could have used.
C33_Witness ==
  \E c \in Callers :
    /\ calls[c].firstResp = "neterr"
    /\ calls[c].pc = "done"
    /\ Truthy(accessToken)
    /\ Truthy(refreshToken)

\* C34: after clearAuth() none of the session's durable entries remains:
\* access token, refresh token, token type, expiry hint and profile are all
\* removed.
C34_ClearRemovesEveryEntry ==
  lastOp.op = "clear" => \A k \in LsKeys : localStorage[k] = NULL

\* Two token values agree: both absent, or both present and equal.
SameToken(a, b) == (Truthy(a) <=> Truthy(b)) /\ (Truthy(a) => a = b)

\* C35: persistence agrees with memory: in every state of the constructed
\* store a fresh load from the durable entries yields the access token and
\* the refresh token (present or absent) that the fields hold.
C35_ReloadAgrees ==
  Constructed
    => /\ SameToken(getAccessToken(loadFromStorage(localStorage)),
                    getAccessToken(Cur))
       /\ SameToken(getRefreshToken(loadFromStorage(localStorage)),
                    getRefreshToken(Cur))

\* A step in which an authFetch call sends: its first send or its resend.
GatewaySends(c) == calls'[c].sends > calls[c].sends

\* A step in which a page sends a request with `Bearer ${token}` built from
\* authManager.getAccessToken()!: /mfa/verify from MFAVerify (part_000 169)
\* and from MFASetup.handleConfirm (MFASetup.tsx 67), /mfa/setup from the
\* mount effect of MFASetup (MFASetup.tsx 27).
VerifySendsDirect == verifyPc'.n > verifyPc.n /\ verifyPc'.mode = "direct"
ConfirmSends == confirmPc.state = "idle" /\ confirmPc'.state = "awaiting"
SetupSends ==
  /\ setupPc' = "awaiting"
  /\ setupPc # "awaiting" \/ page # "mfaSetup" \/ lastOp'.op = "load"

\* C36: every request that carries a bearer credential carries a non-empty
\* access token that the store holds at the moment of sending; no request
\* is in flight with an absent or empty bearer value.
C36_BearerPresent ==
  /\ [](\A c \in Callers :
          calls[c].pc = "sent" => Truthy(calls[c].authorization))
  /\ [][\A c \in Callers :
          GatewaySends(c)
            => /\ Truthy(calls'[c].authorization)
               /\ calls'[c].authorization = accessToken']_vars
  /\ [][(VerifySendsDirect \/ ConfirmSends \/ SetupSends)
          => Truthy(accessToken')]_vars

\* The refresh exchange of call d, started before call c's renewal with the
\* refresh token of that time, completes with a failure while the store
\* holds the pair c's renewal installed.
EarlierRefreshFails(d, c) ==
  /\ StartedBefore(d, c)
  /\ calls[c].granted = accessToken
  /\ calls'[d].refreshRet = "false"

\* C37: a session that a successful refresh has just installed is not
\* destroyed by the completion of another refresh exchange that was started
\* earlier with the old refresh token: the store keeps the renewed pair.
C37_RenewedSessionKept ==
  [][\A c \in Callers, d \in Callers :
       (c # d /\ EarlierRefreshFails(d, c))
         => /\ accessToken' = accessToken
            /\ refreshToken' = refreshToken]_vars

\* authFetch calls beside logins and logouts, without a page reload (which
\* ends every call with the page), where every exchange a call starts
\* completes: the wrapped request is answered or fails, and the refresh
\* exchange settles.
NextLive ==
  \/ \E c \in Callers : AuthFetchStart(c)
  \/ \E c \in Callers : AuthFetchResponse(c)
  \/ \E c \in Callers : RefreshResponse(c)
  \/ \E c \in Callers : AuthFetchReturn(c)
  \/ LoginSubmit
  \/ LoginResponse
  \/ LogoutSubmit
  \/ LogoutResponse

SpecLive ==
  /\ Init
  /\ [][NextLive]_vars
  /\ \A c \in Callers :
       WF_vars(AuthFetchResponse(c)) /\ WF_vars(RefreshResponse(c))

\* Call c is awaiting an exchange.
Awaiting(c) == calls[c].pc \in {"sent", "refreshing"}

\* C38: every authFetch call eventually resolves, with a response or a
\* failure, when every exchange it starts completes: a call that awaits the
\* wrapped request or a refresh exchange is eventually done, and a call that
\* has sent the request again does not refresh again.
C38_CallResolves ==
  /\ \A c \in Callers : Awaiting(c) ~> (calls[c].pc = "done")
  /\ [][\A c \in Callers :
          calls[c].sends >= 2 => calls'[c].pc # "refreshing"]_vars
  /\ [](\A c \in Callers :
          calls[c].pc = "done" => calls[c].result # "none")

\* Both calls have resolved after awaiting a refresh exchange each: one was
\* renewed and resent, the other was refused.
C38_Witness ==
  \E c \in Callers, d \in Callers :
    /\ calls[c].pc = "done" /\ calls[c].sends = 2
    /\ calls[c].refreshRet = "true"
    /\ calls[d].pc = "done" /\ calls[d].exchanges = 1
    /\ calls[d].refreshRet = "false"

====
